---- MODULE Spec2Model ----
(***************************************************************************)
(* Model of dcf-calc.py: get_alpha_vantage_data, calculate_dcf and main.   *)
(*                                                                         *)
(* Python floats are modelled as exact rationals (numerator over a         *)
(* positive denominator, both arbitrary-precision), so the arithmetic of   *)
(* calculate_dcf is followed operation by operation without rounding.      *)
(* JSON strings are sequences of one-character strings and are parsed      *)
(* character by character, as float() and int() do.                        *)
(***************************************************************************)
EXTENDS Integers, Sequences, FiniteSets, TLC

(***************************************************************************)
(* Arbitrary-precision naturals: little-endian sequences of limbs, with no *)
(* leading zero limb (zero is the empty sequence).                         *)
(***************************************************************************)
Base == 10 * 1000

\* Body applied to the value of e, which is computed once.
Bind(e, Body(_)) == CHOOSE r \in { Body(x) : x \in {e} } : TRUE

NTrim(a) ==
    IF \A i \in 1..Len(a) : a[i] = 0 THEN <<>>
    ELSE SubSeq(a, 1, CHOOSE n \in 1..Len(a) : a[n] # 0 /\ \A i \in (n + 1)..Len(a) : a[i] = 0)

NLimb(a, i) == IF i <= Len(a) THEN a[i] ELSE 0

NFromInt(n) == IF n = 0 THEN <<>> ELSE IF n < Base THEN <<n>> ELSE NTrim(<<n % Base, (n \div Base) % Base, n \div (Base * Base)>>)

RECURSIVE NAddFrom(_, _, _, _)
NAddFrom(a, b, i, carry) ==
    IF i > Len(a) /\ i > Len(b)
    THEN IF carry = 0 THEN <<>> ELSE <<carry>>
    ELSE LET s == NLimb(a, i) + NLimb(b, i) + carry
         IN  <<s % Base>> \o NAddFrom(a, b, i + 1, s \div Base)

NAdd(a, b) == Bind(<<a, b>>, LAMBDA x : NAddFrom(x[1], x[2], 1, 0))

\* a - b for a >= b
RECURSIVE NSubFrom(_, _, _, _)
NSubFrom(a, b, i, borrow) ==
    IF i > Len(a) THEN <<>>
    ELSE LET s == NLimb(a, i) - NLimb(b, i) - borrow
         IN  IF s < 0
             THEN <<s + Base>> \o NSubFrom(a, b, i + 1, 1)
             ELSE <<s>> \o NSubFrom(a, b, i + 1, 0)

NSub(a, b) == Bind(<<a, b>>, LAMBDA x : NTrim(NSubFrom(x[1], x[2], 1, 0)))

\* -1, 0, 1 as a < b, a = b, a > b
RECURSIVE NCmpFrom(_, _, _)
NCmpFrom(a, b, i) ==
    IF i = 0 THEN 0
    ELSE IF a[i] < b[i] THEN -1
    ELSE IF a[i] > b[i] THEN 1
    ELSE NCmpFrom(a, b, i - 1)

NCmpValues(a, b) ==
    IF Len(a) < Len(b) THEN -1
    ELSE IF Len(a) > Len(b) THEN 1
    ELSE NCmpFrom(a, b, Len(a))

NCmp(a, b) == Bind(<<a, b>>, LAMBDA x : NCmpValues(x[1], x[2]))

\* a * d for one limb d
RECURSIVE NMulLimbFrom(_, _, _, _)
NMulLimbFrom(a, d, i, carry) ==
    IF i > Len(a)
    THEN IF carry = 0 THEN <<>> ELSE <<carry>>
    ELSE LET p == a[i] * d + carry
         IN  <<p % Base>> \o NMulLimbFrom(a, d, i + 1, p \div Base)

RECURSIVE NMulFrom(_, _, _)
NMulFrom(a, b, j) ==
    IF j > Len(b) THEN <<>>
    ELSE NAdd(NMulLimbFrom(a, b[j], 1, 0), <<0>> \o NMulFrom(a, b, j + 1))

NMulValues(a, b) == IF a = <<>> \/ b = <<>> THEN <<>> ELSE NTrim(NMulFrom(a, b, 1))

NMul(a, b) == Bind(<<a, b>>, LAMBDA x : NMulValues(x[1], x[2]))

(***************************************************************************)
(* Rationals: [neg, num, den] with num, den naturals, den > 0, and neg     *)
(* FALSE when num is zero.  Not reduced; compare with RCmp, never with =.  *)
(***************************************************************************)
Rat(neg, num, den) ==
    Bind(<<num, den>>, LAMBDA x : [neg |-> neg /\ x[1] # <<>>, num |-> x[1], den |-> x[2]])

RInt(n) == IF n < 0 THEN Rat(TRUE, NFromInt(-n), <<1>>) ELSE Rat(FALSE, NFromInt(n), <<1>>)

\* n / d for machine integers n >= 0, d > 0
RFrac(n, d) == Rat(FALSE, NFromInt(n), NFromInt(d))

RIsZero(r) == r.num = <<>>

RNeg(r) == Bind(r, LAMBDA x : Rat(~x.neg, x.num, x.den))

\* r + s for the cross products a = r.num * s.den and b = s.num * r.den
RAddCross(r, s, a, b) ==
    IF r.neg = s.neg THEN Rat(r.neg, NAdd(a, b), NMul(r.den, s.den))
    ELSE IF NCmp(a, b) >= 0 THEN Rat(r.neg, NSub(a, b), NMul(r.den, s.den))
    ELSE Rat(s.neg, NSub(b, a), NMul(r.den, s.den))

RAdd(r, s) ==
    Bind(<<r, s>>, LAMBDA x :
        Bind(<<NMul(x[1].num, x[2].den), NMul(x[2].num, x[1].den)>>, LAMBDA y :
            RAddCross(x[1], x[2], y[1], y[2])))

RSub(r, s) == RAdd(r, RNeg(s))

RMul(r, s) ==
    Bind(<<r, s>>, LAMBDA x :
        Rat(x[1].neg # x[2].neg, NMul(x[1].num, x[2].num), NMul(x[1].den, x[2].den)))

\* r / s for s # 0
RDiv(r, s) ==
    Bind(<<r, s>>, LAMBDA x :
        Rat(x[1].neg # x[2].neg, NMul(x[1].num, x[2].den), NMul(x[1].den, x[2].num)))

RCmpValues(r, s) ==
    IF r.neg /\ ~s.neg THEN -1
    ELSE IF ~r.neg /\ s.neg THEN 1
    ELSE IF r.neg THEN NCmp(NMul(s.num, r.den), NMul(r.num, s.den))
    ELSE NCmp(NMul(r.num, s.den), NMul(s.num, r.den))

RCmp(r, s) == Bind(<<r, s>>, LAMBDA x : RCmpValues(x[1], x[2]))

REq(r, s) == RCmp(r, s) = 0
RLt(r, s) == RCmp(r, s) < 0
RGt(r, s) == RCmp(r, s) > 0

\* math.pow(r, n) for a natural exponent n
RECURSIVE RPow(_, _)
RPow(r, n) == IF n = 0 THEN RInt(1) ELSE RMul(r, RPow(r, n - 1))

(***************************************************************************)
(* float(s) and int(s) on a JSON string s, given as a sequence of          *)
(* characters.  [ok |-> FALSE] stands for ValueError.                      *)
(***************************************************************************)
Digits == <<"0", "1", "2", "3", "4", "5", "6", "7", "8", "9">>

IsDigit(c) == \E i \in 1..10 : Digits[i] = c

DigitValue(c) == (CHOOSE i \in 1..10 : Digits[i] = c) - 1

RECURSIVE DigitsToN(_, _)
DigitsToN(s, acc) ==
    IF s = <<>> THEN acc
    ELSE Bind(NAdd(NMul(acc, <<10>>), NFromInt(DigitValue(Head(s)))),
              LAMBDA next : DigitsToN(Tail(s), next))

RECURSIVE NPow10(_)
NPow10(n) == IF n = 0 THEN <<1>> ELSE NMul(<<10>>, NPow10(n - 1))

Unsigned(s) == IF s # <<>> /\ s[1] \in {"-", "+"} THEN Tail(s) ELSE s

IsNegative(s) == s # <<>> /\ s[1] = "-"

ParseFloat(s) ==
    LET body == Unsigned(s)
        dots == {i \in 1..Len(body) : body[i] = "."}
        wellFormed == /\ Cardinality(dots) <= 1
                      /\ Len(body) > Cardinality(dots)
                      /\ \A i \in 1..Len(body) : i \in dots \/ IsDigit(body[i])
        point == IF dots = {} THEN Len(body) + 1 ELSE CHOOSE i \in dots : TRUE
        whole == SubSeq(body, 1, point - 1)
        frac == SubSeq(body, point + 1, Len(body))
    IN  IF wellFormed
        THEN [ok |-> TRUE,
              val |-> Rat(IsNegative(s), DigitsToN(whole \o frac, <<>>), NPow10(Len(frac)))]
        ELSE [ok |-> FALSE, val |-> RInt(0)]

ParseInt(s) ==
    LET body == Unsigned(s)
        wellFormed == /\ Len(body) > 0
                      /\ \A i \in 1..Len(body) : IsDigit(body[i])
    IN  IF wellFormed
        THEN [ok |-> TRUE, val |-> Rat(IsNegative(s), DigitsToN(body, <<>>), <<1>>)]
        ELSE [ok |-> FALSE, val |-> RInt(0)]

(***************************************************************************)
(* Python values.  None and a returned value share one record shape.       *)
(***************************************************************************)
None == [tag |-> "None", val |-> <<>>]
Unset == [tag |-> "unset", val |-> <<>>]
Data(d) == [tag |-> "dict", val |-> d]
Float(r) == [tag |-> "float", val |-> r]

\* bool(v): None, {} and 0.0 are false
Truthy(v) ==
    CASE v.tag = "dict" -> DOMAIN v.val # {}
      [] v.tag = "float" -> ~RIsZero(v.val)
      [] OTHER -> FALSE

(***************************************************************************)
(* What requests.get and response.json() can hand to the program.          *)
(*   get:    "ok", or "ConnectionError" (a RequestException)               *)
(*   status: the HTTP status raise_for_status() looks at                   *)
(*   json:   "ok", or the exception response.json() raises on a body that  *)
(*           is not JSON: "JSONDecodeError" (a RequestException, requests  *)
(*           2.27 and later) or "ValueError" (earlier releases)            *)
(*   data:   the decoded body, a JSON object ("dict") or a JSON null       *)
(***************************************************************************)
Response(get, status, json, data) == [get |-> get, status |-> status, json |-> json, data |-> data]

ErrorObject == "Error Message" :> <<"e">>
NoteObject == "Note" :> <<"n">>
EmptyObject == <<>>

FailingResponses ==
    { Response("ConnectionError", 0, "ok", None),
      Response("ok", 500, "ok", None),
      Response("ok", 200, "JSONDecodeError", None),
      Response("ok", 200, "ValueError", None),
      Response("ok", 200, "ok", None),
      Response("ok", 200, "ok", Data(ErrorObject)) }

Ok(d) == Response("ok", 200, "ok", Data(d))

\* Largest number of annual reports in a statement; the program reads index 0.
MaxReports == 2

\* A report of an earlier year, never the most recent one.
OlderReport(keys) == [k \in keys |-> <<"7">>]

ReportLists(firsts, keys) ==
    {<<>>} \cup
    { <<r>> \o [i \in 1..(n - 1) |-> OlderReport(keys)] : r \in firsts, n \in 1..MaxReports }

NonNumeric == <<"N", "o", "n", "e">>

RevenueStrings == { NonNumeric, <<"0">>, <<"1", "0", "0", "0">> }
FcfStrings == { NonNumeric, <<"0">>, <<"1", "0", "0">>, <<"-", "1", "0", "0">> }
LiabilitiesStrings == { NonNumeric, <<"3", "0">> }
CashStrings == { NonNumeric, <<"5", "0">>, <<"3", "0">> }
SharesStrings == { NonNumeric, <<"0">>, <<"1", "0", "0">>, <<"1", ".", "5">> }
PriceStrings == { NonNumeric, <<"0", ".", "2">>, <<"1", "7", ".", "7", "5">>, <<"2", "0">> }

IncomeReports == {<<>>} \cup { "totalRevenue" :> s : s \in RevenueStrings }
CashFlowReports == {<<>>} \cup { "freeCashFlow" :> s : s \in FcfStrings }
BalanceReports ==
    {<<>>} \cup { "totalLiabilities" :> l : l \in LiabilitiesStrings }
           \cup { "cashAndCashEquivalents" :> c : c \in CashStrings }
           \cup { ("totalLiabilities" :> l) @@ ("cashAndCashEquivalents" :> c) :
                    l \in LiabilitiesStrings, c \in CashStrings }

StatementDocs(reports, keys) ==
    {EmptyObject, NoteObject} \cup { "annualReports" :> l : l \in ReportLists(reports, keys) }

OverviewDocs == {EmptyObject, NoteObject} \cup { "SharesOutstanding" :> s : s \in SharesStrings }

QuoteDocs ==
    {EmptyObject, NoteObject, "Global Quote" :> <<>>}
    \cup { "Global Quote" :> ("05. price" :> s) : s \in PriceStrings }

Responses(function) ==
    FailingResponses \cup
    { Ok(d) : d \in
        CASE function = "INCOME_STATEMENT" -> StatementDocs(IncomeReports, {"totalRevenue"})
          [] function = "CASH_FLOW" -> StatementDocs(CashFlowReports, {"freeCashFlow"})
          [] function = "BALANCE_SHEET" ->
                StatementDocs(BalanceReports, {"totalLiabilities", "cashAndCashEquivalents"})
          [] function = "OVERVIEW" -> OverviewDocs
          [] OTHER -> QuoteDocs }

(***************************************************************************)
(* get_alpha_vantage_data.  The result is what the call does: the value it *)
(* returns (ret), the lines it prints (out) and the exception it lets      *)
(* through to its caller (exc, "none" when it returns).                    *)
(***************************************************************************)
Returns(v, printed) == [exc |-> "none", line |-> 0, ret |-> v, out |-> printed]
Raises(e, l) == [exc |-> e, line |-> l, ret |-> Unset, out |-> <<>>]

\* except requests.exceptions.RequestException
RequestExceptions == {"ConnectionError", "HTTPError", "JSONDecodeError"}

HandleRequestError(e, l) ==
    IF e \in RequestExceptions THEN Returns(None, <<"HTTP Request failed">>) ELSE Raises(e, l)

\* 'Error Message' in data
ContainsErrorMessage(data) ==
    IF data.tag = "dict"
    THEN [exc |-> "none", val |-> "Error Message" \in DOMAIN data.val]
    ELSE [exc |-> "TypeError", val |-> FALSE]

get_alpha_vantage_data(response) ==
    IF response.get # "ok" THEN HandleRequestError(response.get, 13)
    ELSE IF response.status >= 400 THEN HandleRequestError("HTTPError", 14)
    ELSE IF response.json # "ok" THEN HandleRequestError(response.json, 15)
    ELSE LET test == ContainsErrorMessage(response.data)
         IN  IF test.exc # "none" THEN HandleRequestError(test.exc, 16)
             ELSE IF test.val THEN Returns(None, <<"Error from API">>)
             ELSE Returns(response.data, <<>>)

(***************************************************************************)
(* calculate_dcf after its four fetches (lines 35-86).                     *)
(***************************************************************************)
Found(v) == [exc |-> "none", val |-> v]
Failed(e) == [exc |-> e, val |-> <<>>]

\* doc['annualReports'][0][key]
LatestAnnual(doc, key) ==
    IF "annualReports" \notin DOMAIN doc THEN Failed("KeyError")
    ELSE IF Len(doc["annualReports"]) = 0 THEN Failed("IndexError")
    ELSE IF key \notin DOMAIN doc["annualReports"][1] THEN Failed("KeyError")
    ELSE Found(doc["annualReports"][1][key])

\* doc[key]
Subscript(doc, key) == IF key \in DOMAIN doc THEN Found(doc[key]) ELSE Failed("KeyError")

\* float(x) / int(x) where x is the outcome of a lookup
ToFloat(x) ==
    IF x.exc # "none" THEN x
    ELSE IF ParseFloat(x.val).ok THEN Found(ParseFloat(x.val).val) ELSE Failed("ValueError")

ToInt(x) ==
    IF x.exc # "none" THEN x
    ELSE IF ParseInt(x.val).ok THEN Found(ParseInt(x.val).val) ELSE Failed("ValueError")

\* the try block of lines 40-45: the first statement that raises ends it
ParseStatements(income, cashflow, balance, overview) ==
    LET fcf_data == LatestAnnual(cashflow, "freeCashFlow")
        revenue_data == LatestAnnual(income, "totalRevenue")
        shares_outstanding == ToInt(Subscript(overview, "SharesOutstanding"))
        total_debt == ToFloat(LatestAnnual(balance, "totalLiabilities"))
        cash_and_equivalents == ToFloat(LatestAnnual(balance, "cashAndCashEquivalents"))
        steps == <<fcf_data, revenue_data, shares_outstanding, total_debt, cash_and_equivalents>>
        raised == {i \in 1..5 : steps[i].exc # "none"}
    IN  [exc |-> IF raised = {} THEN "none"
                 ELSE steps[CHOOSE i \in raised : \A j \in raised : i <= j].exc,
         fcf_data |-> fcf_data.val,
         revenue_data |-> revenue_data.val,
         shares_outstanding |-> shares_outstanding.val,
         total_debt |-> total_debt.val,
         cash_and_equivalents |-> cash_and_equivalents.val]

\* except (KeyError, IndexError, ValueError)
ParseExceptions == {"KeyError", "IndexError", "ValueError"}

revenue_growth_rate == RFrac(5, 100)
forecast_years == 5
discount_rate == RFrac(9, 100)
terminal_growth_rate == RFrac(25, 1000)

\* lines 64 and 66: the FCF of the year after one of prior_fcf
NextFcf(prior_fcf) == RMul(prior_fcf, RAdd(RInt(1), revenue_growth_rate))

\* lines 61-67: the list after the iterations 1..i
RECURSIVE ProjectedFcf(_, _)
ProjectedFcf(fcf, i) ==
    IF i = 0 THEN <<>>
    ELSE Bind(ProjectedFcf(fcf, i - 1), LAMBDA projected_fcf :
            Append(projected_fcf,
                   IF i = 1 THEN NextFcf(fcf) ELSE NextFcf(projected_fcf[Len(projected_fcf)])))

\* line 72 with the discounting started one year late: the exponent i - 1
Discounted_OffByOne(fcf, i) == RDiv(fcf, RPow(RAdd(RInt(1), discount_rate), i - 1))

\* line 72: fcf / pow((1 + discount_rate), i)
Discounted(fcf, i) == RDiv(fcf, RPow(RAdd(RInt(1), discount_rate), i))

\* lines 70-72: the sum after the iterations 1..i
RECURSIVE PresentValueFcf(_, _)
PresentValueFcf(fcfs, i) ==
    IF i = 0 THEN RInt(0)
    ELSE RAdd(PresentValueFcf(fcfs, i - 1), Discounted(fcfs[i], i))

\* line 75
TerminalFcf(projected_fcf) ==
    RMul(projected_fcf[Len(projected_fcf)], RAdd(RInt(1), terminal_growth_rate))

\* line 76: the divisor, and the quotient when the divisor is not zero
Spread == RSub(discount_rate, terminal_growth_rate)
TerminalValue(terminal_fcf) == RDiv(terminal_fcf, Spread)

\* line 79
PresentValueTv(terminal_value) ==
    RDiv(terminal_value, RPow(RAdd(RInt(1), discount_rate), forecast_years))

\* line 82
EnterpriseValue(present_value_fcf, present_value_tv) == RAdd(present_value_fcf, present_value_tv)

\* line 83
EquityValue(enterprise_value, cash_and_equivalents, total_debt) ==
    RSub(RAdd(enterprise_value, cash_and_equivalents), total_debt)

\* line 84, for shares_outstanding # 0
IntrinsicValuePerShare(equity_value, shares_outstanding) ==
    RDiv(equity_value, shares_outstanding)

NoLocals ==
    [projected_fcf |-> <<>>, present_value_fcf |-> RInt(0), terminal_value |-> RInt(0),
     present_value_tv |-> RInt(0), enterprise_value |-> RInt(0), equity_value |-> RInt(0)]

Outcome(e, l, r, o, vs) ==
    [exc |-> e, line |-> l, ret |-> r, out |-> o, locals |-> vs]

\* lines 82-86, on the present values of lines 70-79
PerShare(p, projected_fcf, present_value_fcf, terminal_value, present_value_tv) ==
    Bind(EnterpriseValue(present_value_fcf, present_value_tv), LAMBDA enterprise_value :
    Bind(EquityValue(enterprise_value, p.cash_and_equivalents, p.total_debt),
         LAMBDA equity_value :
    Bind([projected_fcf |-> projected_fcf, present_value_fcf |-> present_value_fcf,
          terminal_value |-> terminal_value, present_value_tv |-> present_value_tv,
          enterprise_value |-> enterprise_value, equity_value |-> equity_value],
         LAMBDA vs :
        IF RIsZero(p.shares_outstanding)
        THEN Outcome("ZeroDivisionError", 84, Unset, <<>>, vs)
        ELSE Outcome("none", 0,
                     Float(IntrinsicValuePerShare(equity_value, p.shares_outstanding)),
                     <<>>, vs))))

\* lines 61-86, on the latest free cash flow
Project(p, fcf) ==
    Bind(ProjectedFcf(fcf, forecast_years), LAMBDA projected_fcf :
    Bind(PresentValueFcf(projected_fcf, Len(projected_fcf)), LAMBDA present_value_fcf :
    Bind(TerminalFcf(projected_fcf), LAMBDA terminal_fcf :
        IF RIsZero(Spread) THEN Outcome("ZeroDivisionError", 76, Unset, <<>>, NoLocals)
        ELSE Bind(TerminalValue(terminal_fcf), LAMBDA terminal_value :
             Bind(PresentValueTv(terminal_value), LAMBDA present_value_tv :
                PerShare(p, projected_fcf, present_value_fcf, terminal_value,
                         present_value_tv))))))

\* line 55: fcf_margin = float(fcf_data) / float(revenue_data); the margin is not used
FcfMargin(fcf_data, revenue_data) ==
    IF ~ParseFloat(fcf_data).ok \/ ~ParseFloat(revenue_data).ok THEN "ValueError"
    ELSE IF RIsZero(ParseFloat(revenue_data).val) THEN "ZeroDivisionError"
    ELSE "none"

\* lines 54-86, on the parsed fields p
Valuation(p) ==
    IF FcfMargin(p.fcf_data, p.revenue_data) # "none"
    THEN Outcome(FcfMargin(p.fcf_data, p.revenue_data), 55, Unset, <<>>, NoLocals)
    ELSE Project(p, ParseFloat(p.fcf_data).val)

\* not all([income_statement, cash_flow_statement, balance_sheet, company_overview])
AllTruthy(docs) == \A i \in 1..Len(docs) : Truthy(docs[i])

calculate_dcf_body(income, cashflow, balance, overview) ==
    IF ~AllTruthy(<<income, cashflow, balance, overview>>)
    THEN Outcome("none", 0, None, <<"Failed to retrieve all necessary data">>, NoLocals)
    ELSE LET p == ParseStatements(income.val, cashflow.val, balance.val, overview.val)
         IN  IF p.exc \in ParseExceptions
             THEN Outcome("none", 0, None, <<"Error parsing financial data">>, NoLocals)
             ELSE IF p.exc # "none" THEN Outcome(p.exc, 41, Unset, <<>>, NoLocals)
             ELSE Valuation(p)

(***************************************************************************)
(* The run of main().  pc is where the run stands:                         *)
(*   "main"           before the configuration is read                     *)
(*   a function name  before that fetch (lines 30-33 and 108)              *)
(*   "valuation"      in calculate_dcf, after its four fetches             *)
(*   "compare"        in main, after the GLOBAL_QUOTE fetch                *)
(*   "done"           main has returned                                    *)
(*   "raised"         an exception has left main                           *)
(***************************************************************************)
VARIABLES
    api_key,              \* os.getenv("ALPHA_VANTAGE_API_KEY")
    stock_symbol,         \* os.getenv("STOCK_SYMBOL")
    pc,
    response,             \* what the latest requests.get received
    income_statement,
    cash_flow_statement,
    balance_sheet,
    company_overview,
    locals,               \* the locals of calculate_dcf's arithmetic
    intrinsic_value,
    current_price_data,
    current_price,
    requests,             \* the function of every requests.get issued, in order
    out,                  \* the lines printed, in order
    exc                   \* the exception that left main, and the line that raised it

vars == <<api_key, stock_symbol, pc, response, income_statement, cash_flow_statement,
          balance_sheet, company_overview, locals, intrinsic_value, current_price_data,
          current_price, requests, out, exc>>

statements == <<income_statement, cash_flow_statement, balance_sheet, company_overview>>

NoException == [type |-> "none", line |-> 0]
NoResponse == Response("none", 0, "none", Unset)

\* os.getenv: unset (None), set to the empty string, or set
EnvValues ==
    { [tag |-> "None", val |-> ""], [tag |-> "str", val |-> ""], [tag |-> "str", val |-> "x"] }

\* a test that only notices an unset variable and lets an empty string through
EnvMissing_OnlyUnset(v) == v.tag = "None"

\* not value, for the value of an environment variable
EnvMissing(v) == v.tag = "None" \/ v.val = ""

Init ==
    /\ api_key \in EnvValues
    /\ stock_symbol \in EnvValues
    /\ pc = "main"
    /\ response = NoResponse
    /\ income_statement = Unset
    /\ cash_flow_statement = Unset
    /\ balance_sheet = Unset
    /\ company_overview = Unset
    /\ locals = NoLocals
    /\ intrinsic_value = Unset
    /\ current_price_data = Unset
    /\ current_price = Unset
    /\ requests = <<>>
    /\ out = <<>>
    /\ exc = NoException

\* main, lines 93-103
ReadConfiguration ==
    /\ pc = "main"
    /\ IF EnvMissing(api_key)
       THEN out' = Append(out, "API key not found") /\ pc' = "done"
       ELSE IF EnvMissing(stock_symbol)
       THEN out' = Append(out, "Stock symbol not found") /\ pc' = "done"
       ELSE out' = Append(out, "Calculating intrinsic value") /\ pc' = "INCOME_STATEMENT"
    /\ UNCHANGED <<api_key, stock_symbol, response, statements, locals, intrinsic_value,
                   current_price_data, current_price, requests, exc>>

\* Where the run goes after a fetch that returned.
NextAfter(function) ==
    CASE function = "INCOME_STATEMENT" -> "CASH_FLOW"
      [] function = "CASH_FLOW" -> "BALANCE_SHEET"
      [] function = "BALANCE_SHEET" -> "OVERVIEW"
      [] function = "OVERVIEW" -> "valuation"
      [] function = "GLOBAL_QUOTE" -> "compare"

\* One call of get_alpha_vantage_data: the request, what is printed, and the
\* exception when the call raises.
FetchStep(function, received, call) ==
    /\ requests' = Append(requests, function)
    /\ response' = received
    /\ out' = out \o call.out
    /\ IF call.exc = "none"
       THEN pc' = NextAfter(function) /\ exc' = exc
       ELSE pc' = "raised" /\ exc' = [type |-> call.exc, line |-> call.line]
    /\ UNCHANGED <<api_key, stock_symbol, locals, intrinsic_value, current_price>>

\* line 30
FetchIncomeStatement ==
    /\ pc = "INCOME_STATEMENT"
    /\ \E received \in Responses("INCOME_STATEMENT") :
       \E call \in {get_alpha_vantage_data(received)} :
          /\ FetchStep("INCOME_STATEMENT", received, call)
          /\ income_statement' = call.ret
    /\ UNCHANGED <<cash_flow_statement, balance_sheet, company_overview, current_price_data>>

\* line 31
FetchCashFlow ==
    /\ pc = "CASH_FLOW"
    /\ \E received \in Responses("CASH_FLOW") :
       \E call \in {get_alpha_vantage_data(received)} :
          /\ FetchStep("CASH_FLOW", received, call)
          /\ cash_flow_statement' = call.ret
    /\ UNCHANGED <<income_statement, balance_sheet, company_overview, current_price_data>>

\* line 32
FetchBalanceSheet ==
    /\ pc = "BALANCE_SHEET"
    /\ \E received \in Responses("BALANCE_SHEET") :
       \E call \in {get_alpha_vantage_data(received)} :
          /\ FetchStep("BALANCE_SHEET", received, call)
          /\ balance_sheet' = call.ret
    /\ UNCHANGED <<income_statement, cash_flow_statement, company_overview, current_price_data>>

\* line 33
FetchOverview ==
    /\ pc = "OVERVIEW"
    /\ \E received \in Responses("OVERVIEW") :
       \E call \in {get_alpha_vantage_data(received)} :
          /\ FetchStep("OVERVIEW", received, call)
          /\ company_overview' = call.ret
    /\ UNCHANGED <<income_statement, cash_flow_statement, balance_sheet, current_price_data>>

\* if intrinsic_value: (line 106), on what calculate_dcf returned
AfterValuation(value) == IF Truthy(value) THEN "GLOBAL_QUOTE" ELSE "done"

\* calculate_dcf from line 35 to its return, and main's test of the result (104-106)
Valuate ==
    /\ pc = "valuation"
    /\ \E dcf \in {calculate_dcf_body(income_statement, cash_flow_statement, balance_sheet,
                                      company_overview)} :
           /\ out' = out \o dcf.out
           /\ locals' = dcf.locals
           /\ intrinsic_value' = dcf.ret
           /\ IF dcf.exc = "none"
              THEN pc' = AfterValuation(dcf.ret) /\ exc' = exc
              ELSE pc' = "raised" /\ exc' = [type |-> dcf.exc, line |-> dcf.line]
    /\ UNCHANGED <<api_key, stock_symbol, response, statements, current_price_data,
                   current_price, requests>>

\* line 108
FetchQuote ==
    /\ pc = "GLOBAL_QUOTE"
    /\ \E received \in Responses("GLOBAL_QUOTE") :
       \E call \in {get_alpha_vantage_data(received)} :
          /\ FetchStep("GLOBAL_QUOTE", received, call)
          /\ current_price_data' = call.ret
    /\ UNCHANGED statements

\* lines 115-120
Verdict(value, price) ==
    IF RGt(value, price) THEN "undervalued"
    ELSE IF RLt(value, price) THEN "overvalued"
    ELSE "fairly valued"

\* line 109: current_price_data and "Global Quote" in current_price_data
HasQuote(data) == Truthy(data) /\ "Global Quote" \in DOMAIN data.val

\* line 110: float(current_price_data['Global Quote']['05. price'])
QuotedPrice(data) == ToFloat(Subscript(data.val["Global Quote"], "05. price"))

\* main, lines 109-122
Conclude ==
    /\ pc = "compare"
    /\ IF HasQuote(current_price_data)
       THEN \E price \in {QuotedPrice(current_price_data)} :
               IF price.exc # "none"
               THEN /\ pc' = "raised"
                    /\ exc' = [type |-> price.exc, line |-> 110]
                    /\ UNCHANGED <<out, current_price>>
               ELSE /\ pc' = "done"
                    /\ current_price' = Float(price.val)
                    /\ out' = out \o <<"Intrinsic Value per Share", "Current Market Price",
                                       Verdict(intrinsic_value.val, price.val)>>
                    /\ exc' = exc
       ELSE /\ pc' = "done"
            /\ out' = Append(out, "Could not retrieve current stock price")
            /\ UNCHANGED <<current_price, exc>>
    /\ UNCHANGED <<api_key, stock_symbol, response, statements, locals, intrinsic_value,
                   current_price_data, requests>>

Next ==
    \/ ReadConfiguration
    \/ FetchIncomeStatement
    \/ FetchCashFlow
    \/ FetchBalanceSheet
    \/ FetchOverview
    \/ Valuate
    \/ FetchQuote
    \/ Conclude

Spec == Init /\ [][Next]_vars

(***************************************************************************)
(* Properties.                                                             *)
(***************************************************************************)
Functions == {"INCOME_STATEMENT", "CASH_FLOW", "BALANCE_SHEET", "OVERVIEW", "GLOBAL_QUOTE"}

VerdictLines == {"undervalued", "overvalued", "fairly valued"}
ValueLines == {"Intrinsic Value per Share", "Current Market Price"} \cup VerdictLines

Printed(lines) == \E i \in 1..Len(out) : out[i] \in lines

VerdictsPrinted == SelectSeq(out, LAMBDA l : l \in VerdictLines)

Requested(function) == \E i \in 1..Len(requests) : requests[i] = function

\* calculate_dcf has run past its fetches: it has returned or raised there
Valued == company_overview.tag # "unset" /\ pc \in {"GLOBAL_QUOTE", "compare", "done", "raised"}

Ended == pc \in {"done", "raised"}

\* the four statement fetches each returned a document
AllFetched == \A i \in 1..4 : statements[i].tag = "dict"

\* the five consumed fields, as the program converts them
FcfField == ToFloat(LatestAnnual(cash_flow_statement.val, "freeCashFlow"))
RevenueField == ToFloat(LatestAnnual(income_statement.val, "totalRevenue"))
SharesField == ToInt(Subscript(company_overview.val, "SharesOutstanding"))
LiabilitiesField == ToFloat(LatestAnnual(balance_sheet.val, "totalLiabilities"))
CashField == ToFloat(LatestAnnual(balance_sheet.val, "cashAndCashEquivalents"))

ConsumedFields == <<FcfField, RevenueField, SharesField, LiabilitiesField, CashField>>

AllFieldsParse == AllFetched /\ \A i \in 1..5 : ConsumedFields[i].exc = "none"
SomeFieldBad == AllFetched /\ \E i \in 1..5 : ConsumedFields[i].exc # "none"

\* lo / scale <= r < hi / scale
Within(r, lo, hi, scale) == RCmp(r, RFrac(lo, scale)) >= 0 /\ RLt(r, RFrac(hi, scale))

\* C1: with four fetched documents of which a required field is missing or
\* unparsable, calculate_dcf prints a diagnostic and returns None without
\* raising, and main prints no verdict and returns normally.
C1_BadFieldYieldsNoResult ==
    (SomeFieldBad /\ Valued) =>
        /\ intrinsic_value.tag = "None"
        /\ exc = NoException
        /\ pc = "done"
        /\ out[Len(out)] \in {"Failed to retrieve all necessary data",
                              "Error parsing financial data"}
        /\ ~Printed(ValueLines)

\* C2: whenever calculate_dcf returned a number v (zero and negative values
\* included) main asks for the quote, and when the quote yields a price p it
\* prints exactly one verdict: undervalued if v > p, overvalued if v < p,
\* fairly valued if v = p.
C2_OneVerdictForEveryValue ==
    (pc = "done" /\ intrinsic_value.tag = "float") =>
        /\ Requested("GLOBAL_QUOTE")
        /\ current_price.tag = "float" =>
              VerdictsPrinted = <<Verdict(intrinsic_value.val, current_price.val)>>

C3Inputs ==
    /\ AllFieldsParse
    /\ REq(FcfField.val, RInt(100))
    /\ REq(RevenueField.val, RInt(1000))
    /\ REq(CashField.val, RInt(50))
    /\ REq(LiabilitiesField.val, RInt(30))
    /\ REq(SharesField.val, RInt(100))

C3Projected ==
    /\ Len(locals.projected_fcf) = 5
    /\ REq(locals.projected_fcf[1], RInt(105))
    /\ REq(locals.projected_fcf[2], RFrac(11025, 100))
    /\ REq(locals.projected_fcf[3], RFrac(1157625, 10000))
    /\ REq(locals.projected_fcf[4], RFrac(121550625, 1000000))
    /\ REq(locals.projected_fcf[5], RAdd(RInt(127), RFrac(62815625, 100000000)))

\* C3 as amended: for FCF 100, revenue 1000, cash 50, liabilities 30 and 100
\* shares the projected FCFs are 105, 110.25, 115.7625, 121.550625 and
\* 127.62815625, the present value of the forecast FCFs is 447.6 to 4
\* significant figures, enterprise value is about 1755.6, equity value about
\* 1775.6 and the returned value per share about 17.76.
C3_WorkedExample ==
    (C3Inputs /\ Valued) =>
        /\ intrinsic_value.tag = "float"
        /\ C3Projected
        /\ Within(locals.present_value_fcf, 44755, 44765, 100)
        /\ Within(locals.enterprise_value, 175555, 175565, 100)
        /\ Within(locals.equity_value, 177555, 177565, 100)
        /\ Within(intrinsic_value.val, 17755, 17765, 1000)

C3_WorkedExampleReached == C3Inputs /\ Valued /\ intrinsic_value.tag = "float"

\* C3: for the same inputs the projected FCFs are as above, the present value of
\* the forecast FCFs is 473.3 to 4 significant figures, enterprise value is
\* about 1781.2, equity value about 1801.2 and the value per share about 18.01.
C3_WorkedExampleAsStated ==
    (C3Inputs /\ Valued) =>
        /\ intrinsic_value.tag = "float"
        /\ C3Projected
        /\ Within(locals.present_value_fcf, 47325, 47335, 100)
        /\ Within(locals.enterprise_value, 178115, 178125, 100)
        /\ Within(locals.equity_value, 180115, 180125, 100)
        /\ Within(intrinsic_value.val, 18005, 18015, 1000)

\* The reference formula of C4, term by term.
Growth == RFrac(105, 100)
Discount == RFrac(109, 100)

RECURSIVE ReferenceForecast(_, _)
ReferenceForecast(F, i) ==
    IF i = 0 THEN RInt(0)
    ELSE RAdd(ReferenceForecast(F, i - 1),
              RDiv(RMul(F, RPow(Growth, i)), RPow(Discount, i)))

ReferenceTerminal(F) ==
    RDiv(RDiv(RMul(RMul(F, RPow(Growth, 5)), RFrac(1025, 1000)),
              RSub(RFrac(9, 100), RFrac(25, 1000))),
         RPow(Discount, 5))

ReferenceValue(F, C, L, S) ==
    RDiv(RSub(RAdd(RAdd(ReferenceForecast(F, 5), ReferenceTerminal(F)), C), L), S)

\* C4: for every parsable input with shares outstanding S # 0, calculate_dcf
\* projects exactly 5 FCFs, the i-th being F * 1.05^i, and returns
\* (sum_{i=1..5} F*1.05^i/1.09^i + (F*1.05^5*1.025/(0.09-0.025))/1.09^5 + C - L) / S.
C4_ReferenceFormula ==
    (AllFieldsParse /\ Valued /\ ~RIsZero(SharesField.val)) =>
        /\ intrinsic_value.tag = "float"
        /\ Len(locals.projected_fcf) = 5
        /\ \A i \in 1..5 : REq(locals.projected_fcf[i], RMul(FcfField.val, RPow(Growth, i)))
        /\ REq(intrinsic_value.val,
               ReferenceValue(FcfField.val, CashField.val, LiabilitiesField.val,
                              SharesField.val))

\* the three failures C5 names: a network error, a failing HTTP status, a
\* payload with an 'Error Message' field
NamedFailure(r) ==
    \/ r.get # "ok"
    \/ r.status >= 400
    \/ r.json = "ok" /\ r.data.tag = "dict" /\ "Error Message" \in DOMAIN r.data.val

\* what the latest call of get_alpha_vantage_data returned
Fetched ==
    CASE requests[Len(requests)] = "INCOME_STATEMENT" -> income_statement
      [] requests[Len(requests)] = "CASH_FLOW" -> cash_flow_statement
      [] requests[Len(requests)] = "BALANCE_SHEET" -> balance_sheet
      [] requests[Len(requests)] = "OVERVIEW" -> company_overview
      [] OTHER -> current_price_data

\* C5: every call of get_alpha_vantage_data returns without raising; on a
\* network error, a failing HTTP status or an 'Error Message' payload it returns
\* None and prints one diagnostic line; in every other case it returns the
\* decoded response unchanged and prints nothing.
C5_FetchContract ==
    [][requests' # requests =>
          /\ exc' = NoException
          /\ IF NamedFailure(response')
             THEN Fetched'.tag = "None" /\ Len(out') = Len(out) + 1
             ELSE Fetched' = response'.data /\ out' = out]_vars

AnyFetchFailed == \E i \in 1..4 : statements[i].tag = "None"

\* C6: once one of the four statement fetches has failed, no fetch is issued
\* twice, calculate_dcf parses no field, does no arithmetic and returns no
\* result, no GLOBAL_QUOTE fetch is issued and no verdict is printed.
C6_OneFailureAbortsTheRun ==
    AnyFetchFailed =>
        /\ \A i, j \in 1..Len(requests) : requests[i] = requests[j] => i = j
        /\ ~Requested("GLOBAL_QUOTE")
        /\ ~Printed(ValueLines \cup {"Error parsing financial data"})
        /\ locals = NoLocals
        /\ Ended => pc = "done" /\ intrinsic_value.tag = "None"

\* absent or empty in the environment
AbsentOrEmpty(v) == v.tag = "None" \/ (v.tag = "str" /\ v.val = "")

\* C7: when the API key or the stock symbol is absent or empty in the
\* environment, no network fetch is ever issued, and main prints one diagnostic
\* and returns.
C7_NoFetchWithoutConfiguration ==
    (AbsentOrEmpty(api_key) \/ AbsentOrEmpty(stock_symbol)) =>
        /\ requests = <<>>
        /\ pc \in {"main", "done"}
        /\ pc = "done" =>
              /\ exc = NoException
              /\ out = << IF AbsentOrEmpty(api_key) THEN "API key not found"
                          ELSE "Stock symbol not found" >>

C7_EmptySymbolReached ==
    /\ pc = "done"
    /\ ~AbsentOrEmpty(api_key)
    /\ stock_symbol.tag = "str" /\ stock_symbol.val = ""
    /\ out = <<"Stock symbol not found">>

\* the GLOBAL_QUOTE step supplied a price main can use
UsablePrice ==
    /\ current_price_data.tag = "dict"
    /\ "Global Quote" \in DOMAIN current_price_data.val
    /\ "05. price" \in DOMAIN current_price_data.val["Global Quote"]
    /\ ParseFloat(current_price_data.val["Global Quote"]["05. price"]).ok

\* C8: when calculate_dcf returned a result and the GLOBAL_QUOTE fetch returned
\* but supplies no usable price (it failed, or the payload lacks 'Global Quote',
\* '05. price' or a numeric price), main prints a diagnostic, prints neither the intrinsic
\* value, the price nor a verdict, and returns without raising.
C8_NoPriceIsOnlyLogged ==
    (current_price_data.tag # "unset" /\ Ended /\ ~UsablePrice) =>
        /\ pc = "done"
        /\ exc = NoException
        /\ out[Len(out)] = "Could not retrieve current stock price"
        /\ ~Printed(ValueLines)

\* the income statement with the latest totalRevenue replaced by s
WithRevenue(doc, s) ==
    [doc EXCEPT !["annualReports"] = [@ EXCEPT ![1] = [@ EXCEPT !["totalRevenue"] = s]]]

RevenuePresent ==
    /\ income_statement.tag = "dict"
    /\ LatestAnnual(income_statement.val, "totalRevenue").exc = "none"

\* how calculate_dcf ended: "float", "None" or "raised"
OutcomeKind(o) == IF o.exc # "none" THEN "raised" ELSE o.ret.tag
ThisOutcomeKind == IF intrinsic_value.tag = "unset" THEN "raised" ELSE intrinsic_value.tag

\* C9: with every other field equal, any other value of totalRevenue gives
\* calculate_dcf the same outcome: the same value per share, or the same absence
\* of a result.
C9_RevenueDoesNotMatter ==
    (Valued /\ RevenuePresent) =>
        \A s \in RevenueStrings :
        \A other \in {calculate_dcf_body(Data(WithRevenue(income_statement.val, s)),
                                         cash_flow_statement, balance_sheet,
                                         company_overview)} :
            /\ OutcomeKind(other) = ThisOutcomeKind
            /\ ThisOutcomeKind = "float" => REq(other.ret.val, intrinsic_value.val)

\* C10: when every field parses and SharesOutstanding is 0, calculate_dcf does
\* not return: the per-share division of line 84 raises ZeroDivisionError, which
\* leaves main; no GLOBAL_QUOTE fetch is issued and no verdict is printed.
C10_ZeroSharesRaisesAtPerShare ==
    (AllFieldsParse /\ Valued /\ RIsZero(SharesField.val)) =>
        /\ pc = "raised"
        /\ exc = [type |-> "ZeroDivisionError", line |-> 84]
        /\ intrinsic_value.tag = "unset"
        /\ ~Requested("GLOBAL_QUOTE")
        /\ ~Printed(ValueLines)

====
